---- MODULE Spec2Model ----
(***************************************************************************)
(* The auto-fix loop of the "Error Diagnosis" page (app.py) together with  *)
(* the Data Factory backend it talks to through azure_tools.py and the    *)
(* completion calls of agent.py.                                           *)
(*                                                                         *)
(* The page script is a Streamlit script: every user interaction reruns it *)
(* from the top.  One repair session is one execution of the `for attempt` *)
(* loop; each blocking call of the loop (definition fetch, completion,     *)
(* update, trigger, status read, explanation) is one action whose result   *)
(* is drawn from the results the callee can produce.                       *)
(***************************************************************************)
EXTENDS Integers, Sequences, FiniteSets, TLC

\* ------------------------------------------------------- program constants
MAX_FIX_ATTEMPTS == 3

\* ------------------------------------------------------------------ values
\* Python values that reach current_error: a dict payload, a str, or None.
NoneVal == [t |-> "none", v |-> ""]
DictVal(m) == [t |-> "dict", v |-> m]
StrVal(s) == [t |-> "str", v |-> s]

\* str(x) as Python computes it for the values above
Str(x) ==
    CASE x.t = "str" -> x.v
      [] x.t = "none" -> "None"
      [] x.t = "dict" -> "{'message': '" \o x.v \o "'}"

Pipelines == {"P1", "P2"}
\* the pipeline of the failed run selected on the page
FailedPipelines == {"P1"}
ActivityNames == {"A", "B", "C"}

\* the failed activities the page lists (get_run_activity_logs records)
FailedActivities ==
    { [activityName |-> "A", error |-> DictVal("E1")],
      [activityName |-> "B", error |-> NoneVal] }

\* how a run may end without success: its status and its message
RunFailures ==
    { [status |-> "Failed", message |-> StrVal("E2")],
      [status |-> "Failed", message |-> NoneVal],
      [status |-> "Cancelled", message |-> StrVal("E3")] }

\* A pipeline definition: its name, its activities (name -> content), its
\* annotations, and a property outside activities/parameters/variables/
\* annotations.
NoDef == [name |-> "", activities |-> <<>>, annotations |-> "", description |-> ""]
Def(n, acts, ann, d) ==
    [name |-> n, activities |-> acts, annotations |-> ann, description |-> d]
ActNamesOf(d) == DOMAIN d.activities

InitialDef(p) == Def(p, [a \in {"A", "B"} |-> 0], "", "doc")

\* what another writer leaves in a definition it edits
Edited(d) == [d EXCEPT !.annotations = "edited"]

\* What the completion service may answer when asked for a fix of activity a
\* in definition d: an edit of a's content, a's name changed, or the pipeline
\* name changed.
EditPatch(d, a) ==
    IF a \in ActNamesOf(d)
    THEN [d EXCEPT !.activities[a] = 1 - @]
    ELSE d
RenamePatch(d, a) ==
    IF a \in ActNamesOf(d)
    THEN LET keep == ActNamesOf(d) \ {a}
             fresh == CHOOSE n \in ActivityNames : n \notin ActNamesOf(d)
         IN  [d EXCEPT !.activities = [n \in keep \cup {fresh} |->
                                         IF n \in keep THEN d.activities[n] ELSE 0]]
    ELSE d
PipelineRenamePatch(d) == [d EXCEPT !.name = "renamed"]
PatchChoices(d, a) ==
    {EditPatch(d, a), RenamePatch(d, a), PipelineRenamePatch(d)}

\* manual_intervention_required explanations the completion service may give
Explanations == {"check credentials"}
\* texts get_error_analysis may return
Analyses == {"analysis"}

\* PipelineResource(activities=..., parameters=..., variables=...,
\* annotations=...) stored under pipeline_name by create_or_update: the
\* patch's own name and its other properties are not sent.
PipelineResource(pipeline_name, pipeline_definition) ==
    Def(pipeline_name, pipeline_definition.activities,
        pipeline_definition.annotations, "")

\* ------------------------------------------------------------------- state
VARIABLES
    \* st.session_state.fix_in_progress: None or {'activity', 'pipeline_name'}
    fix_in_progress,
    \* where the page script stands
    pc,
    \* locals of the auto-fix block
    attempt, current_error, pipeline_def, fix_json, new_run_id, run_status,
    \* what the block has put on the page: st.success / st.warning / st.error
    outcome, shown,
    \* the exception that left the script, if one did
    fault,
    \* the backend: the live definitions, and the runs this execution of the
    \* script has triggered (run id = index)
    live, runs,
    \* the calls the current session has made to the Gateway and to the
    \* completion service, in order, with their arguments
    calls,
    \* what the backend has seen from elsewhere: a definition edited by another
    \* writer since this execution of the script began (edited) or since its
    \* last definition fetch (stale); a run created or moved on since the last
    \* status read (changed)
    edited, stale, changed

vars == <<fix_in_progress, pc, attempt, current_error, pipeline_def, fix_json,
          new_run_id, run_status, outcome, shown, fault, live, runs, calls,
          edited, stale, changed>>

\* run_status before the first read of a script execution
NoStatus == "unset"

None == [activity |-> [activityName |-> "", error |-> NoneVal], pipeline_name |-> ""]

Attempts == 1..MAX_FIX_ATTEMPTS

\* the 1-based number of the running attempt (the page prints attempt + 1)
AttemptNo == attempt + 1

\* one call record; the fields a call does not have stay empty
Call(op, pipeline, act, error, definition, run, result) ==
    [op |-> op, attempt |-> AttemptNo, pipeline |-> pipeline, activity |-> act,
     error |-> error, definition |-> definition, run |-> run, result |-> result]

Init ==
    /\ fix_in_progress = None
    /\ pc = "rendered"
    /\ attempt = 0
    /\ current_error = NoneVal
    /\ pipeline_def = NoDef
    /\ fix_json = NoDef
    /\ new_run_id = 0
    /\ run_status = NoStatus
    /\ outcome = "none"
    /\ shown = ""
    /\ fault = "none"
    /\ live = [p \in Pipelines |-> InitialDef(p)]
    /\ runs = <<>>
    /\ calls = <<>>
    /\ edited = FALSE
    /\ stale = FALSE
    /\ changed = FALSE

\* ------------------------------------------------------------ the page
\* A run of the script from the top with fix_in_progress = fip: the page is
\* drawn anew and the locals are fresh; with fip set the script enters the
\* auto-fix block, otherwise it renders the Error Diagnosis page.
RunPage(fip) ==
    /\ outcome' = "none"
    /\ shown' = ""
    /\ fault' = "none"
    /\ attempt' = 0
    /\ pipeline_def' = NoDef
    /\ fix_json' = NoDef
    /\ new_run_id' = 0
    /\ run_status' = NoStatus
    /\ runs' = <<>>
    /\ calls' = <<>>
    /\ edited' = FALSE
    /\ stale' = FALSE
    /\ changed' = FALSE
    /\ IF fip # None
       THEN /\ current_error' = fip.activity.error
            /\ pc' = "fetch"
       ELSE /\ current_error' = NoneVal
            /\ pc' = "rendered"
    /\ UNCHANGED live

\* "Fix Pipeline & Retrigger" of a failed activity of the selected run:
\* fix_in_progress is set and st.rerun() runs the script again
ClickFix(act, name) ==
    /\ pc = "rendered"
    /\ fix_in_progress' = [activity |-> act, pipeline_name |-> name]
    /\ RunPage(fix_in_progress')

\* any other interaction with the page reruns the script
Rerun ==
    /\ pc \in {"rendered", "aborted"}
    /\ UNCHANGED fix_in_progress
    /\ RunPage(fix_in_progress)

\* "Refresh Data": fix_in_progress is deleted, initialize_state sets it to None
RefreshData ==
    /\ pc \in {"rendered", "aborted"}
    /\ fix_in_progress' = None
    /\ RunPage(None)

\* ------------------------------------------------------ the auto-fix block
activity == fix_in_progress.activity
pipeline_name == fix_in_progress.pipeline_name

\* line 255 and the rest of the page: the loop was left by break or by its end
EndSession ==
    /\ fix_in_progress' = None
    /\ pc' = "rendered"

\* a loop that allows one attempt more than MAX_FIX_ATTEMPTS
AttemptFailedOffByOne ==
    IF attempt < MAX_FIX_ATTEMPTS
    THEN /\ attempt' = attempt + 1
         /\ pc' = "fetch"
         /\ UNCHANGED <<fix_in_progress, outcome, shown, fault>>
    ELSE /\ outcome' = "Exhausted"
         /\ shown' = "Auto-fix failed after all attempts."
         /\ EndSession
         /\ UNCHANGED <<attempt, fault>>

\* except (ValueError, RuntimeError, json.JSONDecodeError)
AttemptFailed ==
    IF attempt < MAX_FIX_ATTEMPTS - 1
    THEN /\ attempt' = attempt + 1
         /\ pc' = "fetch"
         /\ UNCHANGED <<fix_in_progress, outcome, shown, fault>>
    ELSE /\ outcome' = "Exhausted"
         /\ shown' = "Auto-fix failed after all attempts."
         /\ EndSession
         /\ UNCHANGED <<attempt, fault>>

\* an exception the except clause does not name leaves the script
Unhandled(e) ==
    /\ fault' = e
    /\ pc' = "aborted"
    /\ UNCHANGED <<fix_in_progress, attempt, outcome, shown>>

\* json.loads raised JSONDecodeError, left uncaught
ParseFailedUnhandled == Unhandled("JSONDecodeError")

\* json.loads raised JSONDecodeError: the except clause takes it
ParseFailed == AttemptFailed

\* a manual verdict handled like a failed attempt
ManualStopRetried(x) == AttemptFailed

\* 3. "manual_intervention_required" in fix_json: st.warning and break
ManualStop(x) ==
    /\ outcome' = "ManualStop"
    /\ shown' = x
    /\ EndSession
    /\ UNCHANGED <<attempt, fault>>

\* a failed run whose message is not taken over
RunFailedKeepsError(run) ==
    /\ UNCHANGED current_error
    /\ AttemptFailed

\* the run read Failed or Cancelled: its message becomes current_error and
\* RuntimeError is raised
RunFailed(run) ==
    /\ current_error' = run.message
    /\ AttemptFailed

\* the run read Succeeded and get_error_analysis returned x: st.success, break
SessionSucceeded(x) ==
    /\ outcome' = "Succeeded"
    /\ shown' = x
    /\ EndSession
    /\ UNCHANGED <<attempt, fault>>

\* a failed fetch whose error text becomes the error given to the proposer
FetchRecordingError ==
    /\ pc = "fetch"
    /\ \/ /\ calls' = Append(calls, Call("fetch", pipeline_name, "", "", NoDef, 0, "ok"))
          /\ pipeline_def' = live[pipeline_name]
          /\ pc' = "propose"
          /\ stale' = FALSE
          /\ UNCHANGED <<fix_in_progress, attempt, outcome, shown, fault, current_error>>
       \/ /\ calls' = Append(calls, Call("fetch", pipeline_name, "", "", NoDef, 0, "error"))
          /\ current_error' = StrVal("Failed to get pipeline definition")
          /\ AttemptFailed
          /\ UNCHANGED <<pipeline_def, stale>>
    /\ UNCHANGED <<fix_json, new_run_id, run_status, live, runs, edited, changed>>

\* 1. get_pipeline_definition: the definition, or {"error": ...}
Fetch ==
    /\ pc = "fetch"
    /\ \/ /\ calls' = Append(calls, Call("fetch", pipeline_name, "", "", NoDef, 0, "ok"))
          /\ pipeline_def' = live[pipeline_name]
          /\ pc' = "propose"
          /\ stale' = FALSE
          /\ UNCHANGED <<fix_in_progress, attempt, outcome, shown, fault>>
       \/ /\ calls' = Append(calls, Call("fetch", pipeline_name, "", "", NoDef, 0, "error"))
          /\ AttemptFailed
          /\ UNCHANGED <<pipeline_def, stale>>
    /\ UNCHANGED <<current_error, fix_json, new_run_id, run_status, live, runs,
                   edited, changed>>

\* 2.-3. get_pipeline_fix_json, json.loads and the manual-intervention check.
\* The completion call returns text or raises; an exception of the completion
\* client is a ValueError/RuntimeError or it is not.
Propose ==
    /\ pc = "propose"
    /\ LET c(result) == Call("propose", "", activity.activityName,
                             Str(current_error), pipeline_def, 0, result)
       IN
       \/ \E d \in PatchChoices(pipeline_def, activity.activityName) :
            /\ calls' = Append(calls, c("patch"))
            /\ fix_json' = d
            /\ pc' = "apply"
            /\ UNCHANGED <<fix_in_progress, attempt, outcome, shown, fault>>
       \/ \E x \in Explanations :
            /\ calls' = Append(calls, c("manual"))
            /\ fix_json' = [manual_intervention_required |-> x]
            /\ ManualStop(x)
       \/ /\ calls' = Append(calls, c("unparsable"))
          /\ ParseFailed
          /\ UNCHANGED fix_json
       \/ /\ calls' = Append(calls, c("raised"))
          /\ AttemptFailed
          /\ UNCHANGED fix_json
       \/ /\ calls' = Append(calls, c("raised"))
          /\ Unhandled("CompletionError")
          /\ UNCHANGED fix_json
    /\ UNCHANGED <<current_error, pipeline_def, new_run_id, run_status, live, runs,
                   edited, stale, changed>>

\* update_pipeline whose "error" result is not looked at
ApplyUnchecked ==
    /\ pc = "apply"
    /\ \E result \in {"ok", "error"} :
         /\ calls' = Append(calls, Call("update", pipeline_name, "", "", fix_json, 0, result))
         /\ live' = IF result = "ok"
                    THEN [live EXCEPT ![pipeline_name] =
                              PipelineResource(pipeline_name, fix_json)]
                    ELSE live
    /\ pc' = "trigger"
    /\ UNCHANGED <<fix_in_progress, attempt, outcome, shown, fault>>
    /\ UNCHANGED <<current_error, pipeline_def, fix_json, new_run_id, run_status,
                   runs, edited, stale, changed>>

\* update_pipeline that leaves alone a definition changed since it was fetched
ApplyIfUnchanged ==
    /\ pc = "apply"
    /\ \/ /\ calls' = Append(calls, Call("update", pipeline_name, "", "", fix_json, 0, "ok"))
          /\ live' = IF live[pipeline_name] = pipeline_def
                     THEN [live EXCEPT ![pipeline_name] =
                               PipelineResource(pipeline_name, fix_json)]
                     ELSE live
          /\ pc' = "trigger"
          /\ UNCHANGED <<fix_in_progress, attempt, outcome, shown, fault>>
       \/ /\ calls' = Append(calls, Call("update", pipeline_name, "", "", fix_json, 0, "error"))
          /\ AttemptFailed
          /\ UNCHANGED live
    /\ UNCHANGED <<current_error, pipeline_def, fix_json, new_run_id, run_status,
                   runs, edited, stale, changed>>

\* 4. update_pipeline: create_or_update, or {"error": ...}
Apply ==
    /\ pc = "apply"
    /\ \/ /\ calls' = Append(calls, Call("update", pipeline_name, "", "", fix_json, 0, "ok"))
          /\ live' = [live EXCEPT ![pipeline_name] =
                          PipelineResource(pipeline_name, fix_json)]
          /\ pc' = "trigger"
          /\ UNCHANGED <<fix_in_progress, attempt, outcome, shown, fault>>
       \/ /\ calls' = Append(calls, Call("update", pipeline_name, "", "", fix_json, 0, "error"))
          /\ AttemptFailed
          /\ UNCHANGED live
    /\ UNCHANGED <<current_error, pipeline_def, fix_json, new_run_id, run_status,
                   runs, edited, stale, changed>>

\* a failed retrigger that puts the fetched definition back
TriggerRestoring ==
    /\ pc = "trigger"
    /\ \/ /\ calls' = Append(calls, Call("trigger", pipeline_name, "", "", NoDef,
                                         Len(runs) + 1, "ok"))
          /\ runs' = Append(runs, [pipelineName |-> pipeline_name,
                                   status |-> "Queued", message |-> NoneVal])
          /\ new_run_id' = Len(runs) + 1
          /\ changed' = TRUE
          /\ pc' = "monitor"
          /\ UNCHANGED <<fix_in_progress, attempt, outcome, shown, fault, live>>
       \/ /\ calls' = Append(calls, Call("trigger", pipeline_name, "", "", NoDef, 0, "error"))
          /\ live' = [live EXCEPT ![pipeline_name] = pipeline_def]
          /\ AttemptFailed
          /\ UNCHANGED <<runs, new_run_id, changed>>
    /\ UNCHANGED <<current_error, pipeline_def, fix_json, run_status,
                   edited, stale>>

\* a retrigger of the pipeline the patch names
RetriggeredPatchName == fix_json.name

\* the pipeline create_pipeline_run is asked to run
Retriggered == pipeline_name

\* 5. create_pipeline_run: a new run, or {"error": ...}
Trigger ==
    /\ pc = "trigger"
    /\ \/ /\ calls' = Append(calls, Call("trigger", Retriggered, "", "", NoDef,
                                         Len(runs) + 1, "ok"))
          /\ runs' = Append(runs, [pipelineName |-> Retriggered,
                                   status |-> "Queued", message |-> NoneVal])
          /\ new_run_id' = Len(runs) + 1
          /\ changed' = TRUE
          /\ pc' = "monitor"
          /\ UNCHANGED <<fix_in_progress, attempt, outcome, shown, fault>>
       \/ /\ calls' = Append(calls, Call("trigger", Retriggered, "", "", NoDef, 0, "error"))
          /\ AttemptFailed
          /\ UNCHANGED <<runs, new_run_id, changed>>
    /\ UNCHANGED <<current_error, pipeline_def, fix_json, run_status, live,
                   edited, stale>>

\* a monitor that reads the run triggered before this attempt's, if any
MonitoredRunPrevious == IF new_run_id > 1 THEN new_run_id - 1 ELSE new_run_id

\* the run whose status the monitor reads: the one this attempt's trigger
\* returned
MonitoredRun == new_run_id

\* a status read that moves a queued run on
get_pipeline_run_advancing(run_id) ==
    /\ runs' = [runs EXCEPT ![run_id].status = IF @ = "Queued" THEN "InProgress" ELSE @]
    /\ UNCHANGED live

\* get_pipeline_run: pipeline_runs.get reads the run and writes nothing
get_pipeline_run(run_id) == UNCHANGED <<live, runs>>

\* 6. one pass of the `while True` loop: sleep, get_pipeline_run, branch on
\* run_status['status'].  {"error": ...} has no 'status' key: KeyError.
Poll ==
    /\ pc = "monitor"
    /\ LET run == runs[MonitoredRun]
           c(result) == Call("get_run", "", "", "", NoDef, MonitoredRun, result)
       IN
       \/ /\ calls' = Append(calls, c("error"))
          /\ run_status' = "error"
          /\ Unhandled("KeyError")
          /\ UNCHANGED current_error
       \/ /\ run_status' = run.status
          /\ CASE run.status = "Succeeded" ->
                    /\ calls' = Append(calls, c(run.status))
                    /\ pc' = "explain"
                    /\ UNCHANGED <<fix_in_progress, attempt, outcome, shown, fault,
                                   current_error>>
               [] run.status \in {"Failed", "Cancelled"} ->
                    /\ calls' = Append(calls, c(run.status))
                    /\ RunFailed(run)
               [] OTHER ->
                    UNCHANGED <<fix_in_progress, pc, attempt, outcome, shown, fault,
                                current_error, calls>>
    /\ get_pipeline_run(MonitoredRun)
    /\ changed' = FALSE
    /\ UNCHANGED <<pipeline_def, fix_json, new_run_id, edited, stale>>

\* the success branch: get_error_analysis(str(current_error)), st.success, break
Explain ==
    /\ pc = "explain"
    /\ LET c(result) == Call("explain", "", "", Str(current_error), NoDef, 0, result)
       IN
       \/ \E x \in Analyses :
            /\ calls' = Append(calls, c("ok"))
            /\ SessionSucceeded(x)
       \/ /\ calls' = Append(calls, c("raised"))
          /\ AttemptFailed
       \/ /\ calls' = Append(calls, c("raised"))
          /\ Unhandled("CompletionError")
    /\ UNCHANGED <<current_error, pipeline_def, fix_json, new_run_id, run_status,
                   live, runs, edited, stale, changed>>

\* ------------------------------------------------------------ the backend
\* a run moves on: Queued -> InProgress -> Succeeded | Failed | Cancelled
RunProgress(r) ==
    /\ r \in 1..Len(runs)
    /\ \/ /\ runs[r].status = "Queued"
          /\ runs' = [runs EXCEPT ![r].status = "InProgress"]
       \/ /\ runs[r].status = "InProgress"
          /\ \/ runs' = [runs EXCEPT ![r].status = "Succeeded"]
             \/ \E f \in RunFailures :
                  runs' = [runs EXCEPT ![r].status = f.status, ![r].message = f.message]
    /\ changed' = TRUE
    /\ UNCHANGED <<fix_in_progress, pc, attempt, current_error, pipeline_def, fix_json,
                   new_run_id, run_status, outcome, shown, fault, live, calls,
                   edited, stale>>

\* another writer of the factory replaces the definition of pipeline p while
\* the session holds a definition it fetched and has not yet applied its patch
OutOfBandEdit(p) ==
    /\ pc \in {"propose", "apply"}
    /\ live[p] # Edited(live[p])
    /\ live' = [live EXCEPT ![p] = Edited(live[p])]
    /\ edited' = TRUE
    /\ stale' = (stale \/ p = pipeline_name)
    /\ UNCHANGED <<fix_in_progress, pc, attempt, current_error, pipeline_def, fix_json,
                   new_run_id, run_status, outcome, shown, fault, runs, calls, changed>>

Next ==
    \/ \E a \in FailedActivities, p \in FailedPipelines : ClickFix(a, p)
    \/ Rerun
    \/ RefreshData
    \/ Fetch
    \/ Propose
    \/ Apply
    \/ Trigger
    \/ Poll
    \/ Explain
    \/ \E r \in 1..Len(runs) : RunProgress(r)
    \/ \E p \in FailedPipelines : OutOfBandEdit(p)

Spec == Init /\ [][Next]_vars

\* ------------------------------------------------------------ properties
\* positions in the session's call record
IdxOf(op) == {i \in DOMAIN calls : calls[i].op = op}
IdxIn(op, k) == {i \in IdxOf(op) : calls[i].attempt = k}
Count(op) == Cardinality(IdxOf(op))
IdxResult(result) == {i \in DOMAIN calls : calls[i].result = result}
LastCall == calls[Len(calls)]

\* a call that did not deliver: an error result, an unparsable or missing
\* completion, a run read Failed or Cancelled
Failure(c) == c.result \in {"error", "unparsable", "raised", "Failed", "Cancelled"}

\* the failures the except clause is meant to fold into "attempt failed"
FoldedFailure(c) ==
    \/ c.op \in {"fetch", "update", "trigger"} /\ c.result = "error"
    \/ c.op = "propose" /\ c.result = "unparsable"
    \/ c.op = "get_run" /\ c.result \in {"Failed", "Cancelled"}

SameNames(d, e) == d.name = e.name /\ ActNamesOf(d) = ActNamesOf(e)

\* C1. Bounded attempts: a session makes at most MAX_FIX_ATTEMPTS attempts,
\* each at most once, and it reports exhaustion only when attempts
\* 1..MAX_FIX_ATTEMPTS were all made and the last of them has failed.
BoundedAttempts ==
    /\ AttemptNo \in Attempts
    /\ \A i \in DOMAIN calls : calls[i].attempt \in Attempts
    /\ \A k \in Attempts : Cardinality(IdxIn("fetch", k)) <= 1
    /\ outcome = "Exhausted" =>
         /\ AttemptNo = MAX_FIX_ATTEMPTS
         /\ \A k \in Attempts : IdxIn("fetch", k) # {}
         /\ LastCall.attempt = MAX_FIX_ATTEMPTS
         /\ Failure(LastCall)

\* exhaustion reached through three different kinds of failure
BoundedAttemptsWitness ==
    /\ outcome = "Exhausted"
    /\ Count("fetch") = MAX_FIX_ATTEMPTS
    /\ Count("trigger") = 1

\* C2. Manual verdict short-circuits: a parsed response holding the
\* manual-intervention key in attempt k is the session's last call; the session
\* has ended at attempt k as ManualStop showing that explanation, attempt k
\* made no update_pipeline and no create_pipeline_run call, and no attempt k+1
\* exists.
ManualShortCircuits ==
    \A i \in IdxResult("manual") :
        /\ i = Len(calls)
        /\ calls[i].op = "propose"
        /\ AttemptNo = calls[i].attempt
        /\ outcome = "ManualStop"
        /\ pc = "rendered"
        /\ fix_in_progress = None
        /\ shown = fix_json.manual_intervention_required
        /\ IdxIn("update", calls[i].attempt) = {}
        /\ IdxIn("trigger", calls[i].attempt) = {}

\* a manual verdict on attempt 2, after attempt 1 applied a patch and ran it
ManualShortCircuitsWitness ==
    /\ outcome = "ManualStop"
    /\ AttemptNo = 2
    /\ Count("trigger") = 1

\* C3. Name preservation: every definition passed to update_pipeline has the
\* pipeline name and the activity names of the definition fetched in that
\* attempt (the one the proposer was given).
NamePreservation ==
    \A i \in IdxOf("update") :
        \A j \in IdxIn("propose", calls[i].attempt) :
            SameNames(calls[i].definition, calls[j].definition)

\* the first attempt went through: fetch, a name-preserving patch, update,
\* trigger, and a status read of Succeeded
FirstAttemptSucceeds ==
    /\ Len(calls) >= 5
    /\ calls[1].op = "fetch" /\ calls[1].result = "ok"
    /\ calls[2].op = "propose" /\ calls[2].result = "patch"
    /\ calls[3].op = "update" /\ calls[3].result = "ok"
    /\ SameNames(calls[3].definition, calls[2].definition)
    /\ calls[4].op = "trigger" /\ calls[4].result = "ok"
    /\ calls[5].op = "get_run" /\ calls[5].result = "Succeeded"

\* C4. Success path: once attempt 1 has fetched, got a valid patch, updated,
\* triggered and read Succeeded, the session stays in attempt 1 with one
\* fetch, one update, one trigger and one monitoring pass, it is not aborted,
\* and when it has ended it has ended Succeeded.
SuccessPath ==
    FirstAttemptSucceeds =>
        /\ AttemptNo = 1
        /\ pc \in {"explain", "rendered"}
        /\ pc = "rendered" => outcome = "Succeeded"
        /\ Count("fetch") = 1
        /\ Count("update") = 1
        /\ Count("trigger") = 1
        /\ Count("get_run") = 1

\* C5. Retry with the new error: a run of attempt k < MAX_FIX_ATTEMPTS read
\* Failed or Cancelled with message E2 is followed by attempt k+1; the proposer
\* call of attempt k+1 is given E2; and once attempt k+1 has read its run as
\* Succeeded the session stays in attempt k+1 and, when it has ended, has
\* ended Succeeded.
RetryWithNewError ==
    \A i \in IdxOf("get_run") :
        LET k == calls[i].attempt
            E2 == runs[calls[i].run].message
        IN  (calls[i].result \in {"Failed", "Cancelled"} /\ E2.t = "str"
                /\ k < MAX_FIX_ATTEMPTS) =>
            /\ i = Len(calls) => (pc = "fetch" /\ AttemptNo = k + 1)
            /\ i < Len(calls) =>
                 (calls[i + 1].op = "fetch" /\ calls[i + 1].attempt = k + 1)
            /\ \A j \in IdxIn("propose", k + 1) : calls[j].error = E2.v
            /\ \A j \in IdxIn("get_run", k + 1) :
                 calls[j].result = "Succeeded" =>
                    /\ AttemptNo = k + 1
                    /\ pc \in {"explain", "rendered"}
                    /\ pc = "rendered" => outcome = "Succeeded"

\* every attempt updated the pipeline, triggered a run and read it as Failed
EveryAttemptRanAndFailed ==
    \A k \in Attempts :
        /\ \E i \in IdxIn("update", k) : calls[i].result = "ok"
        /\ \E i \in IdxIn("trigger", k) : calls[i].result = "ok"
        /\ \E i \in IdxIn("get_run", k) : calls[i].result = "Failed"

\* C6. Exhaustion: when every one of the MAX_FIX_ATTEMPTS attempts applied a
\* patch and triggered a run that was read Failed, the session has ended
\* Exhausted, current_error is the message of the last attempt's run, and
\* exactly MAX_FIX_ATTEMPTS fetch, propose, update, trigger calls and
\* monitoring passes were made, on exactly MAX_FIX_ATTEMPTS runs.
Exhaustion ==
    EveryAttemptRanAndFailed =>
        /\ outcome = "Exhausted"
        /\ pc = "rendered"
        /\ LastCall.op = "get_run"
        /\ LastCall.attempt = MAX_FIX_ATTEMPTS
        /\ current_error = runs[LastCall.run].message
        /\ \A op \in {"fetch", "propose", "update", "trigger", "get_run"} :
             /\ Count(op) = MAX_FIX_ATTEMPTS
             /\ \A k \in Attempts : Cardinality(IdxIn(op, k)) = 1
        /\ Len(runs) = MAX_FIX_ATTEMPTS

\* three failed runs whose last message differs from the one before it
ExhaustionWitness ==
    /\ EveryAttemptRanAndFailed
    /\ runs[2].message = StrVal("E2")
    /\ runs[3].message = NoneVal

\* C7. Parse failure counts as an attempt: an unparsable proposer response in
\* attempt k is the last call of attempt k, which makes no update and no
\* trigger; the next call belongs to attempt k+1 (or, for the last attempt,
\* the session has ended Exhausted); and with p unparsable responses the
\* session triggers at most MAX_FIX_ATTEMPTS - p runs.
ParseFailureCountsAsAttempt ==
    /\ \A i \in IdxResult("unparsable") :
         LET k == calls[i].attempt
         IN  /\ calls[i].op = "propose"
             /\ IdxIn("update", k) = {}
             /\ IdxIn("trigger", k) = {}
             /\ i < Len(calls) => calls[i + 1].attempt = k + 1
             /\ i = Len(calls) =>
                  IF k < MAX_FIX_ATTEMPTS
                  THEN pc = "fetch" /\ AttemptNo = k + 1
                  ELSE outcome = "Exhausted"
    /\ Count("trigger") + Cardinality(IdxResult("unparsable")) <= MAX_FIX_ATTEMPTS
    /\ Len(runs) + Cardinality(IdxResult("unparsable")) <= MAX_FIX_ATTEMPTS

\* one unparsable response, then two attempts that each triggered a run
ParseFailureWitness ==
    /\ Cardinality(IdxResult("unparsable")) = 1
    /\ calls[2].result = "unparsable"
    /\ Len(runs) = MAX_FIX_ATTEMPTS - 1

\* C8. Uniform attempt-failure path: a fetch error, an unparsable response, an
\* update error, a trigger error or a run read Failed/Cancelled in attempt k
\* ends attempt k; for k < MAX_FIX_ATTEMPTS the next thing the session does is
\* the fetch of attempt k+1, and for k = MAX_FIX_ATTEMPTS the session has ended
\* Exhausted, with no exception leaving the script.
UniformAttemptFailure ==
    \A i \in DOMAIN calls :
        FoldedFailure(calls[i]) =>
            LET k == calls[i].attempt
            IN  IF k < MAX_FIX_ATTEMPTS
                THEN /\ i = Len(calls) =>
                          /\ pc = "fetch"
                          /\ AttemptNo = k + 1
                          /\ outcome = "none"
                          /\ fault = "none"
                          /\ fix_in_progress # None
                     /\ i < Len(calls) =>
                          /\ calls[i + 1].op = "fetch"
                          /\ calls[i + 1].attempt = k + 1
                ELSE /\ i = Len(calls)
                     /\ outcome = "Exhausted"
                     /\ pc = "rendered"
                     /\ fault = "none"

\* a session exhausted by an update error, a trigger error and a cancelled run
UniformAttemptFailureWitness ==
    /\ outcome = "Exhausted"
    /\ \E i \in IdxIn("update", 1) : calls[i].result = "error"
    /\ \E i \in IdxIn("trigger", 2) : calls[i].result = "error"
    /\ LastCall.op = "get_run" /\ LastCall.result = "Cancelled"

\* C9. Explanations are best-effort: when the explanation call fails after the
\* run was read Succeeded, it is the session's last call and the session has
\* ended Succeeded: no further attempt, no abort.
ExplanationBestEffort ==
    \A i \in IdxOf("explain") :
        calls[i].result = "raised" =>
            /\ i = Len(calls)
            /\ pc = "rendered"
            /\ outcome = "Succeeded"

\* a session ran and the script has left the auto-fix block
SessionEnded == calls # <<>> /\ pc \in {"rendered", "aborted"}

\* C10. Session convergence (its final result): when every completion call has
\* returned, a session that has ended has ended as Succeeded, ManualStop or
\* Exhausted.
SessionConvergence ==
    (SessionEnded /\ IdxResult("raised") = {}) =>
        /\ pc = "rendered"
        /\ outcome \in {"Succeeded", "ManualStop", "Exhausted"}

\* the statuses a run can be read in
RunStatuses == {"Queued", "InProgress", "Succeeded", "Failed", "Cancelled"}

\* C11. Idempotent monitor read: a pass of the monitor changes neither the
\* runs nor the pipeline definitions of the backend, and a read that follows
\* a read of the same run with no backend change in between delivers the same
\* status as that one.
IdempotentMonitorRead ==
    [][(pc = "monitor" /\ ~changed') =>
          /\ runs' = runs
          /\ live' = live
          /\ (~changed /\ run_status \in RunStatuses /\ run_status' \in RunStatuses)
                => run_status' = run_status]_vars

\* the monitor has read its run InProgress and nothing has changed since: the
\* next pass reads the same run again
IdempotentMonitorReadWitness ==
    /\ pc = "monitor"
    /\ ~changed
    /\ run_status = "InProgress"
    /\ runs[MonitoredRun].status = "InProgress"

\* the successful update_pipeline calls of the session
AppliedIdx == {i \in IdxOf("update") : calls[i].result = "ok"}
Max(S) == CHOOSE i \in S : \A j \in S : j <= i

\* with no write from elsewhere, the live definition is what the session's
\* latest successful update wrote
LastPatchIsLive ==
    (AppliedIdx # {} /\ ~edited) =>
        LET c == calls[Max(AppliedIdx)]
        IN  live[c.pipeline] = PipelineResource(c.pipeline, c.definition)

\* a step that changes a live definition is a write from elsewhere or a
\* successful update_pipeline call, which stores its patch
OnlyApplyWrites ==
    live' # live =>
        \/ edited' /\ calls' = calls
        \/ /\ Len(calls') = Len(calls) + 1
           /\ LET c == calls'[Len(calls')]
              IN  /\ c.op = "update" /\ c.result = "ok"
                  /\ live' = [live EXCEPT ![c.pipeline] =
                                  PipelineResource(c.pipeline, c.definition)]

\* C12. No rollback: the only write a session makes to a pipeline definition
\* is the one of a successful update_pipeline call; no later failure, manual
\* stop or exhaustion puts an earlier definition back, so with no write from
\* elsewhere the live definition is what the latest successful update stored
\* from its patch, and the definition the session found if it applied none.
NoRollback == []LastPatchIsLive /\ [][OnlyApplyWrites]_vars

\* a session applied two patches, failed after each and ended Exhausted on a
\* trigger error, and nobody else wrote
NoRollbackWitness ==
    /\ outcome = "Exhausted"
    /\ ~edited
    /\ Cardinality(AppliedIdx) >= 2
    /\ LastCall.op = "trigger" /\ LastCall.result = "error"
    /\ \E i \in AppliedIdx :
         calls[i].definition.activities # calls[Max(AppliedIdx)].definition.activities

\* call i directly follows a call of the same attempt with this op and result
Follows(i, op, result) ==
    /\ i > 1
    /\ calls[i - 1].op = op
    /\ calls[i - 1].result = result
    /\ calls[i - 1].attempt = calls[i].attempt

\* C13. Step ordering: within an attempt the proposer is called only after
\* the fetch succeeded, update_pipeline only after a patch verdict was parsed,
\* create_pipeline_run only after the update succeeded, and the status is read
\* only of the run that attempt's trigger returned; the fetch of attempt k+1
\* comes only after attempt k has failed.
StepOrdering ==
    /\ \A i \in DOMAIN calls :
         LET c == calls[i]
         IN  /\ c.op = "propose" => Follows(i, "fetch", "ok")
             /\ c.op = "update" => Follows(i, "propose", "patch")
             /\ c.op = "trigger" => Follows(i, "update", "ok")
             /\ c.op = "get_run" =>
                   /\ Follows(i, "trigger", "ok")
                   /\ c.run = calls[i - 1].run
             /\ c.op = "fetch" =>
                   IF c.attempt = 1
                   THEN i = 1
                   ELSE /\ i > 1
                        /\ calls[i - 1].attempt = c.attempt - 1
                        /\ Failure(calls[i - 1])
    /\ pc = "monitor" =>
         /\ LastCall.op = "trigger" /\ LastCall.result = "ok"
         /\ LastCall.attempt = AttemptNo
         /\ MonitoredRun = LastCall.run

\* the second attempt read the run its own trigger returned, that run failed,
\* and the third attempt has fetched
StepOrderingWitness ==
    /\ pc = "propose"
    /\ AttemptNo = 3
    /\ \E i \in IdxIn("get_run", 2) : calls[i].run = 2 /\ calls[i].result = "Failed"

\* the session's latest call is a successful update made after another writer
\* changed the definition the attempt had fetched
StaleApplyDone ==
    /\ calls # <<>>
    /\ LastCall.op = "update" /\ LastCall.result = "ok"
    /\ stale

\* after such an update the live definition is the one stored from the
\* session's patch, the patch is one made from the fetched definition, and
\* what the other writer wrote is gone
StaleApplyWins ==
    StaleApplyDone =>
        LET c == LastCall
        IN  /\ pc = "trigger"
            /\ c.definition \in PatchChoices(pipeline_def, activity.activityName)
            /\ live[c.pipeline] = PipelineResource(c.pipeline, c.definition)
            /\ live[c.pipeline].annotations = pipeline_def.annotations
            /\ live[c.pipeline] # Edited(live[c.pipeline])

\* the step that leaves the apply position after such a change is the
\* update_pipeline call with the patch the proposer returned
StaleApplyCalled ==
    (pc = "apply" /\ stale /\ pc' # "apply") =>
        /\ Len(calls') = Len(calls) + 1
        /\ calls'[Len(calls')].op = "update"
        /\ calls'[Len(calls')].definition = fix_json
        /\ calls'[Len(calls')].pipeline = pipeline_name

\* C14. Last-write-wins apply: when another writer changes the definition
\* between an attempt's fetch and its apply, update_pipeline is still called
\* with the patch made from the fetched definition; when it succeeds the live
\* definition is the one stored from that patch and the other writer's change
\* is lost.
LastWriteWins == []StaleApplyWins /\ [][StaleApplyCalled]_vars

\* the update succeeded over another writer's edit, whose annotations are gone
LastWriteWinsWitness ==
    /\ StaleApplyDone
    /\ pc = "trigger"
    /\ live[LastCall.pipeline].annotations = ""
    /\ edited

\* C15. Polling read errors: after a status read that returned the Gateway's
\* error result the session is still monitoring the same run in the same
\* attempt: the read has neither ended the session nor used up the attempt.
PollingReadErrors ==
    (calls # <<>> /\ LastCall.op = "get_run" /\ LastCall.result = "error") =>
        /\ pc = "monitor"
        /\ fault = "none"
        /\ AttemptNo = LastCall.attempt
        /\ MonitoredRun = LastCall.run

\* the step appends a call with this op to the session's record
Calls(op) == Len(calls') = Len(calls) + 1 /\ calls'[Len(calls')].op = op

\* C16. Explanation of the original error: every explanation requested after
\* a run was read Succeeded is of the error of the activity failure the
\* session was started for, whatever earlier attempts' runs reported.
ExplainsOriginalError ==
    [][Calls("explain") => calls'[Len(calls')].error = Str(activity.error)]_vars

\* the calls that name a pipeline
PipelineCalls == IdxOf("fetch") \cup IdxOf("update") \cup IdxOf("trigger")

\* every pipeline-naming call of the record names the pipeline of the first
\* one, every run was started for it, every proposer call names one activity;
\* while the session runs these are the session's pipeline and activity
TargetsInRecord ==
    /\ \A i \in PipelineCalls : calls[i].pipeline = calls[1].pipeline
    /\ \A r \in DOMAIN runs : runs[r].pipelineName = calls[1].pipeline
    /\ \A i, j \in IdxOf("propose") : calls[i].activity = calls[j].activity
    /\ (calls # <<>> /\ fix_in_progress # None) =>
          /\ calls[1].pipeline = pipeline_name
          /\ \A i \in IdxOf("propose") : calls[i].activity = activity.activityName

\* while the auto-fix block runs, fix_in_progress keeps the value the button
\* gave it, until the block clears it at its end
TargetKept ==
    pc \notin {"rendered", "aborted"} =>
        \/ fix_in_progress' = fix_in_progress /\ fix_in_progress # None
        \/ fix_in_progress' = None /\ pc' = "rendered"

\* C17. Fixed target: throughout a session every fetch, update and trigger
\* names the pipeline the session was started with and every proposer call
\* names the activity it was started with, in every attempt, whatever the
\* earlier attempts did and whatever name their patches carried.
FixedTarget == []TargetsInRecord /\ [][TargetKept]_vars

\* the third attempt retriggered P1 after the first attempt's patch, which
\* carried another pipeline name, had been applied
FixedTargetWitness ==
    /\ \E i \in IdxIn("update", 1) :
         calls[i].result = "ok" /\ calls[i].definition.name = "renamed"
    /\ \E i \in IdxIn("trigger", 3) : calls[i].pipeline = "P1" /\ calls[i].result = "ok"
    /\ \E i \in IdxIn("propose", 3) : calls[i].activity = "A"

\* C18. Uncapped monitor: the session leaves the monitor only on a read that
\* delivers Succeeded, Failed or Cancelled; a read that delivers Queued or
\* InProgress leaves the session where it is, monitoring the same run in the
\* same attempt, with nothing counted: while the run is not terminal the
\* session stays in the monitor.
UncappedMonitor ==
    [][pc = "monitor" =>
          /\ pc' # "monitor" =>
                /\ runs[MonitoredRun].status \in {"Succeeded", "Failed", "Cancelled"}
                /\ run_status' = runs[MonitoredRun].status
          /\ (~changed' /\ run_status' \in {"Queued", "InProgress"}) =>
                /\ pc' = "monitor"
                /\ UNCHANGED <<attempt, new_run_id, fix_in_progress, outcome, fault,
                               calls, runs>>]_vars

\* a script that has left the auto-fix block has cleared fix_in_progress
EndClears == pc \in {"rendered", "aborted"} => fix_in_progress = None

\* the script enters the auto-fix block only in the rerun the button causes
StartIsPress ==
    (pc \in {"rendered", "aborted"} /\ pc' = "fetch") =>
        fix_in_progress = None /\ fix_in_progress' # None

\* C19. One session per request: however the session ends, fix_in_progress is
\* None once the script has left the auto-fix block, and the block is entered
\* only by the rerun that follows a press of "Fix Pipeline & Retrigger": no
\* later rerun of the page starts the repair again.
OneSessionPerRequest == []EndClears /\ [][StartIsPress]_vars

\* the failed runs read between two calls of the record
FailedRunsBetween(i, j) ==
    {k \in IdxOf("get_run") : i < k /\ k < j /\ calls[k].result \in {"Failed", "Cancelled"}}

\* proposer calls with no failed run between them were given the same error
SameErrorProposed ==
    \A i, j \in IdxOf("propose") :
        (i < j /\ FailedRunsBetween(i, j) = {}) => calls[i].error = calls[j].error

\* inside the auto-fix block current_error changes only in the step that reads
\* a run Failed or Cancelled, and then to that run's message
ErrorReplacedByRunOnly ==
    pc \notin {"rendered", "aborted"} =>
        IF Calls("get_run") /\ calls'[Len(calls')].result \in {"Failed", "Cancelled"}
        THEN current_error' = runs[MonitoredRun].message
        ELSE current_error' = current_error

\* C20. Error context changes only on run failure: current_error is replaced
\* only when a retriggered run is read Failed or Cancelled; an attempt that
\* fails at the fetch, parse, update or trigger step leaves it as it is, and
\* the next attempt's proposer is given the same error.
ErrorContextFrame == []SameErrorProposed /\ [][ErrorReplacedByRunOnly]_vars

\* attempts 1 and 2 failed at update and at parse, attempt 3 failed at its
\* fetch: all proposer calls were given the activity's error
ErrorContextFrameWitness ==
    /\ outcome = "Exhausted"
    /\ \E i \in IdxIn("update", 1) : calls[i].result = "error"
    /\ \E i \in IdxIn("propose", 2) :
         calls[i].result = "unparsable" /\ calls[i].error = Str(DictVal("E1"))
    /\ \E i \in IdxIn("fetch", 3) : calls[i].result = "error"
    /\ current_error = DictVal("E1")

====
